---- MODULE Spec2Model ----
(***************************************************************************)
(* Model of src/src/main.rs: solve, the work-queue relaxation that         *)
(* computes the distance of every position of a line with shortcuts from   *)
(* position 0.                                                             *)
(***************************************************************************)
EXTENDS Integers, Sequences, FiniteSets, TLC

\* Largest length of the shortcut slice handed to solve.
MaxN == 5

VARIABLES input, shortcuts, queue, distances, current, shortcut, prev, next,
          current_dist, result, pc, pushes

vars == <<input, shortcuts, queue, distances, current, shortcut, prev, next,
          current_dist, result, pc, pushes>>

----------------------------------------------------------------------------
\* Option<usize>: None is the empty tuple, Some(v) the one-element tuple.
None == <<>>

Some(v) == <<v>>

\* Option::map_or(default, f) with f given by its value on the content.
MapOr(opt, default, mapped) == IF opt = None THEN default ELSE mapped

\* bool::then
Then(cond, v) == IF cond THEN Some(v) ELSE None

\* The slices solve may be called with: length N in 1..MaxN, values in 1..N.
Inputs == UNION {[1..n -> 1..n] : n \in 1..MaxN}

\* shortcuts.iter().map(|elt| elt - 1).collect(), indexed from 0.
Normalise(raw) == [i \in 0..(Len(raw) - 1) |-> raw[i + 1] - 1]

\* Variant: the seed distances[0] = Some(0) is forgotten.
InitDistancesNoSeed(len) == [i \in 0..(len - 1) |-> None]

\* vec![None; len] followed by distances[0] = Some(0).
InitDistances(len) == [i \in 0..(len - 1) |-> IF i = 0 THEN Some(0) ELSE None]

\* VecDeque::push_front
PushFront(q, x) == <<x>> \o q

\* Variant: the front is read (front()) but not removed.
PopFrontPeek(q) == q

\* What VecDeque::pop_front leaves in the queue.
PopFront(q) == Tail(q)

\* Variant: an equal candidate counts as better (<= for <).
IsBetterOrEqual(dist, other, cand) ==
    MapOr(dist[other], TRUE, cand <= dist[other][1])

\* Variant: a candidate smaller by one only is not taken as better.
IsBetterByTwo(dist, other, cand) ==
    MapOr(dist[other], TRUE, cand + 1 < dist[other][1])

\* Variant: a candidate larger by one is still taken as better.
IsBetterWithinOne(dist, other, cand) ==
    MapOr(dist[other], TRUE, cand < dist[other][1] + 2)

\* The test of update_and_push_if_better.
IsBetter(dist, other, cand) == MapOr(dist[other], TRUE, cand < dist[other][1])

\* update_and_push_if_better: the queue and the distances it leaves.
UpdateAndPushIfBetter(q, dist, other, cand) ==
    IF IsBetter(dist, other, cand)
    THEN [queue |-> PushFront(q, other),
          distances |-> [dist EXCEPT ![other] = Some(cand)]]
    ELSE [queue |-> q, distances |-> dist]

\* History of queue.push_front: how often each position has been pushed.
CountPush(count, q, qAfter) ==
    IF Len(qAfter) > Len(q) THEN [count EXCEPT ![Head(qAfter)] = @ + 1] ELSE count

\* Variant: the comparison is turned around (current < 0).
HasPrevFlipped(cur) == cur < 0

\* current > 0
HasPrev(cur) == cur > 0

\* Variant: the last position is never a next neighbour.
HasNextShort(cur, len) == cur + 1 < len - 1

\* Variant: the bound is the length itself (current < shortcuts.len()).
HasNextLong(cur, len) == cur < len

\* current < shortcuts.len() - 1
HasNext(cur, len) == cur < len - 1

\* Variant: the shortcut of a position is taken to be the position itself.
ShortcutOfSelf(sc, cur) == cur

\* shortcuts[current]
ShortcutOf(sc, cur) == sc[cur]

\* Variant: the candidate is two more than the distance of current.
CurrentDistPlusTwo(dist, cur) == MapOr(dist[cur], 0, 2 + dist[cur][1])

\* Variant: the candidate is the distance of current itself.
CurrentDistPlusZero(dist, cur) == MapOr(dist[cur], 0, dist[cur][1])

\* distances[current].map_or(0, |current_dist| 1 + current_dist)
CurrentDist(dist, cur) == MapOr(dist[cur], 0, 1 + dist[cur][1])

\* distances.into_iter().flatten(): the set entries, in position order.
RECURSIVE FlattenFrom(_, _, _)
FlattenFrom(dist, i, len) ==
    IF i >= len THEN <<>> ELSE dist[i] \o FlattenFrom(dist, i + 1, len)

Flatten(dist, len) == FlattenFrom(dist, 0, len)

----------------------------------------------------------------------------
\* solve is entered with a slice; nothing is built yet.
Init ==
    /\ input \in Inputs
    /\ shortcuts = <<>>
    /\ queue = <<>>
    /\ distances = <<>>
    /\ current = 0
    /\ shortcut = 0
    /\ prev = None
    /\ next = None
    /\ current_dist = 0
    /\ result = <<>>
    /\ pushes = <<>>
    /\ pc = "start"

\* Normalisation, the empty queue, the distance array and the seed.
Setup ==
    /\ pc = "start"
    /\ shortcuts' = Normalise(input)
    /\ distances' = InitDistances(Len(input))
    /\ queue' = PushFront(<<>>, 0)
    /\ pushes' = [i \in 0..(Len(input) - 1) |-> IF i = 0 THEN 1 ELSE 0]
    /\ pc' = "loop"
    /\ UNCHANGED <<input, current, shortcut, prev, next, current_dist, result>>

\* while let Some(current) = queue.pop_front(), and the four lets.
Pop ==
    /\ pc = "loop"
    /\ queue # <<>>
    /\ current' = Head(queue)
    /\ queue' = PopFront(queue)
    /\ shortcut' = ShortcutOf(shortcuts, Head(queue))
    /\ prev' = Then(HasPrev(Head(queue)), Head(queue) - 1)
    /\ next' = Then(HasNext(Head(queue), Len(input)), Head(queue) + 1)
    /\ current_dist' = CurrentDist(distances, Head(queue))
    /\ pc' = "prev"
    /\ UNCHANGED <<input, shortcuts, distances, result, pushes>>

\* if let Some(prev) = prev { update_and_push_if_better(.., prev, ..) }
RelaxPrev ==
    /\ pc = "prev"
    /\ IF prev # None
       THEN LET r == UpdateAndPushIfBetter(queue, distances, prev[1], current_dist)
            IN  /\ queue' = r.queue
                /\ distances' = r.distances
                /\ pushes' = CountPush(pushes, queue, r.queue)
       ELSE UNCHANGED <<queue, distances, pushes>>
    /\ pc' = "next"
    /\ UNCHANGED <<input, shortcuts, current, shortcut, prev, next,
                   current_dist, result>>

\* if let Some(next) = next { update_and_push_if_better(.., next, ..) }
RelaxNext ==
    /\ pc = "next"
    /\ IF next # None
       THEN LET r == UpdateAndPushIfBetter(queue, distances, next[1], current_dist)
            IN  /\ queue' = r.queue
                /\ distances' = r.distances
                /\ pushes' = CountPush(pushes, queue, r.queue)
       ELSE UNCHANGED <<queue, distances, pushes>>
    /\ pc' = "shortcut"
    /\ UNCHANGED <<input, shortcuts, current, shortcut, prev, next,
                   current_dist, result>>

\* update_and_push_if_better(.., shortcut, ..), then back to the loop head.
RelaxShortcut ==
    /\ pc = "shortcut"
    /\ LET r == UpdateAndPushIfBetter(queue, distances, shortcut, current_dist)
       IN  /\ queue' = r.queue
           /\ distances' = r.distances
           /\ pushes' = CountPush(pushes, queue, r.queue)
    /\ pc' = "loop"
    /\ UNCHANGED <<input, shortcuts, current, shortcut, prev, next,
                   current_dist, result>>

\* pop_front yields None: the loop ends and the flattened array is returned.
Return ==
    /\ pc = "loop"
    /\ queue = <<>>
    /\ result' = Flatten(distances, Len(input))
    /\ pc' = "done"
    /\ UNCHANGED <<input, shortcuts, queue, distances, current, shortcut,
                   prev, next, current_dist, pushes>>

Next == Setup \/ Pop \/ RelaxPrev \/ RelaxNext \/ RelaxShortcut \/ Return

Spec == Init /\ [][Next]_vars

\* The loop is a sequential program: it always takes its next step.
LiveSpec == Spec /\ WF_vars(Next)

----------------------------------------------------------------------------
\* Reference graphs and distances the properties are stated against.

N == Len(input)

Positions == 0..(N - 1)

Done == pc = "done"

\* Line edges, both directions.
LineEdges == {e \in Positions \X Positions : e[2] = e[1] - 1 \/ e[2] = e[1] + 1}

\* Shortcut edges from their owner to their target.
ShortcutEdges == {<<i, input[i + 1] - 1>> : i \in Positions}

Reverse(E) == {<<e[2], e[1]>> : e \in E}

\* Line edges plus shortcut edges, every edge usable in both directions.
UndirectedGraph == LineEdges \cup ShortcutEdges \cup Reverse(ShortcutEdges)

\* Line edges in both directions, shortcut edges from owner to target only.
DirectedGraph == LineEdges \cup ShortcutEdges

\* Positions reached from position 0 by a path of at most k edges of E.
RECURSIVE Within(_, _)
Within(E, k) ==
    IF k = 0 THEN {0}
    ELSE LET W == Within(E, k - 1)
         IN  W \cup {e[2] : e \in {f \in E : f[1] \in W}}

\* Minimum number of edges of a path from 0 to i in E, None if there is none.
ShortestDist(E, i) ==
    IF i \in Within(E, N)
    THEN Some(CHOOSE k \in 0..N :
                 /\ i \in Within(E, k)
                 /\ \A j \in 0..(k - 1) : i \notin Within(E, j))
    ELSE None

\* a <= b + k on recorded distances; an unset entry satisfies nothing.
LeqPlus(a, b, k) == a # None /\ b # None /\ a[1] <= b[1] + k

Abs(x) == IF x < 0 THEN 0 - x ELSE x

Min(a, b) == IF a < b THEN a ELSE b

\* Some position has been written again after its first write.
Rewritten == \E i \in DOMAIN pushes : i # 0 /\ pushes[i] >= 2

----------------------------------------------------------------------------
\* C1 (as stated): when solve finishes, distance[i] is the minimum number of
\* edges from 0 to i in the graph of line and shortcut edges with every edge,
\* shortcut edges included, traversable in both directions.
C1_UndirectedShortest ==
    Done => \A i \in Positions : distances[i] = ShortestDist(UndirectedGraph, i)

\* C1 (amended): when solve finishes, distance[i] is the minimum number of
\* edges from 0 to i in the graph whose line edges are traversable in both
\* directions and whose shortcut edges lead from i to shortcut[i] only.
C1_DirectedShortest ==
    Done => \A i \in Positions : distances[i] = ShortestDist(DirectedGraph, i)

\* A finished run on an input where traversing a shortcut backwards would
\* shorten some path.
C1_Witness ==
    /\ Done
    /\ \E i \in Positions :
          /\ distances[i] = ShortestDist(DirectedGraph, i)
          /\ ShortestDist(UndirectedGraph, i)[1] < distances[i][1]

\* C2: the relaxation loop terminates (the end of solve is eventually
\* reached, with an empty queue), and the loop is left exactly when the
\* queue is empty at the loop head.
C2_Terminates ==
    /\ <>(Done /\ queue = <<>>)
    /\ [][pc = "loop" => ((pc' = "done") <=> (queue = <<>>))]_vars

\* A finished run of more than one position that took several iterations.
C2_Witness ==
    Done /\ queue = <<>> /\ N >= 3 /\ \A i \in Positions : pushes[i] >= 1

\* C3: when solve finishes no entry of the distance array is unset, the
\* returned sequence has exactly N entries and its i-th entry is the
\* distance of position i.
C3_ResultComplete ==
    Done => /\ \A i \in Positions : distances[i] # None
            /\ Len(result) = N
            /\ \A i \in Positions : result[i + 1] = distances[i][1]

\* A finished run whose last position is reached along the line only.
C3_Witness ==
    /\ Done
    /\ N >= 3
    /\ Len(result) = N
    /\ \A i \in Positions : input[i + 1] - 1 # N - 1 \/ i = N - 1

\* C4: when solve finishes, distance[shortcut[i]] <= distance[i] + 1 for
\* every position i.
C4_ShortcutForward ==
    Done => \A i \in Positions :
               LeqPlus(distances[shortcuts[i]], distances[i], 1)

\* A finished run in which a shortcut gives its target a distance the line
\* alone does not.
C4_Witness ==
    /\ Done
    /\ \E i \in Positions :
          /\ shortcuts[i] > i + 1
          /\ distances[shortcuts[i]] = Some(distances[i][1] + 1)
          /\ distances[shortcuts[i]][1] < shortcuts[i]

\* C5 (as stated): when solve finishes, distance[i] <= distance[shortcut[i]]
\* + 1 for every position i.
C5_ShortcutBackward ==
    Done => \A i \in Positions :
               LeqPlus(distances[i], distances[shortcuts[i]], 1)

\* C5 (amended): when solve finishes, distance[i] <= distance[shortcut[i]] +
\* |i - shortcut[i]| for every position i: from the target of its shortcut a
\* position is reached back along the line edges only.
C5_ShortcutBackwardAlongLine ==
    Done => \A i \in Positions :
               LeqPlus(distances[i], distances[shortcuts[i]],
                       Abs(i - shortcuts[i]))

\* A finished run in which a position lies more than one edge behind the
\* target of its own shortcut.
C5_Witness ==
    /\ Done
    /\ \E i \in Positions :
          /\ distances[i] # None
          /\ distances[shortcuts[i]] # None
          /\ distances[i][1] > distances[shortcuts[i]][1] + 1

\* C6: when solve finishes, the distances of adjacent positions differ by at
\* most one.
C6_LineTriangle ==
    Done => \A i \in Positions :
               i < N - 1 => /\ LeqPlus(distances[i + 1], distances[i], 1)
                            /\ LeqPlus(distances[i], distances[i + 1], 1)

\* A finished run in which some position is nearer to 0 than its left
\* neighbour.
C6_Witness ==
    /\ Done
    /\ \E i \in Positions :
          /\ i < N - 1
          /\ distances[i] # None
          /\ distances[i + 1] # None
          /\ distances[i + 1][1] < distances[i][1]

\* C7: distance[0] = 0 in every state of solve from initialization on, and
\* in the returned result; position 0 is pushed (hence written) by the seed
\* only, never by a relaxation.
C7_OriginZero ==
    /\ pc # "start" => (distances[0] = Some(0) /\ pushes[0] = 1)
    /\ Done => result[1] = 0

\* Position 0 has been relaxed as the previous neighbour of position 1 and
\* as the target of a shortcut.
C7_Witness ==
    /\ Done
    /\ distances[0] = Some(0)
    /\ N >= 2
    /\ \E i \in Positions : i # 0 /\ shortcuts[i] = 0

\* C8: in every step a set entry stays set and does not grow, and every write
\* (each comes with a push of the written position) to an already set entry
\* stores a strictly smaller value.
C8_OnlyImproves ==
    [][pc # "start" =>
         /\ \A i \in Positions :
               distances[i] # None =>
                  /\ distances'[i] # None
                  /\ distances'[i][1] <= distances[i][1]
         /\ Len(queue') > Len(queue) =>
               \/ distances[Head(queue')] = None
               \/ distances'[Head(queue')][1] < distances[Head(queue')][1]]_vars

\* An entry that was set has been overwritten.
C8_Witness == pc # "start" /\ Rewritten

\* Position 0 shortcuts to the last position, every other one to itself.
BackwardInput == input[1] = N /\ \A j \in 2..N : input[j] = j

\* C9: when position 0 shortcuts to the last position and every other
\* position to itself, solve returns distance[i] = min(i, N - i).
C9_BackwardTravel ==
    (Done /\ BackwardInput) =>
        /\ Len(result) = N
        /\ \A i \in Positions : result[i + 1] = Min(i, N - i)

\* The run on [5,2,3,4,5] has returned [0,1,2,2,1].
C9_Witness ==
    Done /\ BackwardInput /\ N = 5 /\ result = <<0, 1, 2, 2, 1>>

\* Every shortcut targets its own position or an adjacent one.
UselessInput == \A j \in 1..N : Abs(input[j] - j) <= 1

\* C10: when every shortcut targets its own or an adjacent position, solve
\* returns distance[i] = i.
C10_UselessShortcuts ==
    (Done /\ UselessInput) =>
        /\ Len(result) = N
        /\ \A i \in Positions : result[i + 1] = i

\* The run on [2,2,3] has returned [0,1,2].
C10_Witness ==
    Done /\ input = <<2, 2, 3>> /\ result = <<0, 1, 2>>

----------------------------------------------------------------------------
\* Breadth-first reference over the edges one iteration of solve relaxes.

\* The positions the iteration for u relaxes: u-1, u+1 and the shortcut of u.
OutNeighbours(u) == ({u - 1, u + 1} \cap Positions) \cup {input[u + 1] - 1}

\* Level-by-level search: every position met for the first time gets the
\* level at which it is met.
RECURSIVE BfsLevels(_, _, _)
BfsLevels(dist, frontier, level) ==
    IF frontier = {} THEN dist
    ELSE LET met == {v \in UNION {OutNeighbours(u) : u \in frontier} :
                        dist[v] = None}
         IN  BfsLevels([i \in Positions |->
                           IF i \in met THEN Some(level + 1) ELSE dist[i]],
                       met, level + 1)

BfsDistances ==
    BfsLevels([i \in Positions |-> IF i = 0 THEN Some(0) ELSE None], {0}, 0)

\* C12: the array solve returns is the breadth-first distance from position
\* 0 in the graph with line edges in both directions and each shortcut edge
\* from its owner to its target only.
C12_ResultIsDirectedBfs ==
    Done => /\ Len(result) = N
            /\ \A i \in Positions : Some(result[i + 1]) = BfsDistances[i]

\* The run on [4,4,4,4] has returned [0,1,2,1].
C12_Witness ==
    Done /\ input = <<4, 4, 4, 4>> /\ result = <<0, 1, 2, 1>>

----------------------------------------------------------------------------
\* C13: every position is traversed once: it is pushed (and hence written,
\* and hence popped, the queue being empty at the end) at most once while
\* solve runs and exactly once when solve has finished.
C13_TraversedOnce ==
    /\ pc # "start" => \A i \in Positions : pushes[i] <= 1
    /\ Done => \A i \in Positions : pushes[i] = 1

\* C14: distances are computed floor by floor: the recorded distance of the
\* popped position (the candidate of the iteration less one) never decreases
\* from one pop to the next.
C14_FloorByFloor ==
    [][(pc = "loop" /\ pc' = "prev" /\ current_dist >= 1) =>
           current_dist' >= current_dist]_vars

\* The loop body is being executed for the popped position.
InBody == pc \in {"prev", "next", "shortcut"}

\* C15: every position held in the work queue has a recorded distance; the
\* popped position has one too and the candidate of the iteration is one
\* more than it.
C15_QueuedHaveDistance ==
    /\ pc # "start" => \A k \in 1..Len(queue) : distances[queue[k]] # None
    /\ InBody => /\ distances[current] # None
                 /\ current_dist = 1 + distances[current][1]

\* A position other than 0 is being processed while others wait in the queue.
C15_Witness ==
    /\ InBody
    /\ current # 0
    /\ Len(queue) >= 2
    /\ current_dist = 1 + distances[current][1]

\* Relaxing v from u would change the distance of v.
Relaxable(u, v) ==
    \/ distances[v] = None
    \/ distances[v][1] > distances[u][1] + 1

InQueue(u) == \E k \in 1..Len(queue) : queue[k] = u

\* C16: at the loop head, every position with a recorded distance that has
\* an out-neighbour it could still improve is in the work queue; with an
\* empty queue no relaxation is applicable.
C16_WorklistInvariant ==
    pc = "loop" =>
        \A u \in Positions :
           (distances[u] # None /\ \E v \in OutNeighbours(u) : Relaxable(u, v))
               => InQueue(u)

\* At a loop head after the first iteration, a queued position can still
\* improve a neighbour while another position has nothing left to improve.
C16_Witness ==
    /\ pc = "loop"
    /\ current_dist >= 1
    /\ \E u \in Positions :
          /\ distances[u] # None
          /\ InQueue(u)
          /\ \E v \in OutNeighbours(u) : Relaxable(u, v)
    /\ \E u \in Positions :
          /\ distances[u] # None
          /\ ~InQueue(u)

\* What relaxing the neighbour other with candidate c is to do in a step.
RelaxEffect(other, c) ==
    IF distances[other] = None \/ c < distances[other][1]
    THEN /\ distances' = [distances EXCEPT ![other] = Some(c)]
         /\ queue' = <<other>> \o queue
    ELSE /\ distances' = distances
         /\ queue' = queue

\* C17: a relaxation with candidate 1 + distance[current] writes the
\* neighbour and pushes it on the front exactly when the neighbour is unset
\* or the candidate strictly smaller, and otherwise changes neither array nor
\* queue; an iteration changes no entry but those of current-1, current+1
\* and shortcut[current], and never that of current.
C17_RelaxFrame ==
    [][InBody =>
         /\ current_dist = 1 + distances[current][1]
         /\ (pc = "prev" /\ current > 0) => RelaxEffect(current - 1, current_dist)
         /\ (pc = "prev" /\ current = 0) => UNCHANGED <<distances, queue>>
         /\ (pc = "next" /\ current < N - 1) =>
                RelaxEffect(current + 1, current_dist)
         /\ (pc = "next" /\ current >= N - 1) => UNCHANGED <<distances, queue>>
         /\ pc = "shortcut" => RelaxEffect(shortcuts[current], current_dist)
         /\ \A i \in Positions :
               i \notin {current - 1, current + 1, shortcuts[current]} =>
                   distances'[i] = distances[i]
         /\ distances'[current] = distances[current]]_vars

\* A relaxation has just rewritten a set entry and pushed its position, and
\* the relaxation before it in the same iteration changed nothing.
C17_Witness ==
    /\ pc = "shortcut"
    /\ next # None
    /\ queue # <<>>
    /\ Head(queue) = next[1]
    /\ pushes[next[1]] >= 2
    /\ distances[next[1]] = Some(current_dist)
    /\ prev # None
    /\ distances[prev[1]][1] < current_dist

\* The relaxed graph without the shortcut edges from a position to itself.
GraphWithoutSelfShortcuts ==
    LineEdges \cup {e \in ShortcutEdges : e[1] # e[2]}

\* C18: a self-shortcut contributes no edge: the shortcut relaxation of a
\* position that shortcuts to itself changes neither the distances nor the
\* queue, and the final distances are the shortest distances of the graph
\* without the self-shortcut edges.
C18_SelfShortcut ==
    /\ [][(pc = "shortcut" /\ shortcuts[current] = current) =>
              UNCHANGED <<distances, queue>>]_vars
    /\ [](Done => \A i \in Positions :
                     distances[i] = ShortestDist(GraphWithoutSelfShortcuts, i))

\* A finished run in which a position other than 0 that shortcuts to itself
\* has been processed, next to a position with a real shortcut.
C18_Witness ==
    /\ Done
    /\ \E i \in Positions : i # 0 /\ shortcuts[i] = i /\ pushes[i] >= 1
    /\ \E i \in Positions : Abs(shortcuts[i] - i) >= 2

\* C19: under the preconditions solve reaches no error state: every index
\* it uses on the shortcut and distance arrays (the queued positions, current,
\* current-1, current+1, shortcut[current]) lies in [0, N), the previous
\* neighbour exists only for current > 0 and the next only for current < N-1,
\* no subtraction goes below 0, and for N = 1 the result is [0].
C19_NoErrorState ==
    /\ N - 1 >= 0
    /\ \A j \in 1..N : input[j] - 1 >= 0
    /\ pc # "start" =>
          /\ \A i \in Positions : shortcuts[i] \in Positions
          /\ \A k \in 1..Len(queue) : queue[k] \in Positions
    /\ InBody =>
          /\ current \in Positions
          /\ shortcut \in Positions
          /\ prev # None =>
                (current > 0 /\ prev[1] = current - 1 /\ prev[1] \in Positions)
          /\ next # None =>
                (current < N - 1 /\ next[1] = current + 1 /\ next[1] \in Positions)
          /\ prev = None => current = 0
          /\ next = None => current = N - 1
    /\ (Done /\ N = 1) => result = <<0>>

\* The last position is being processed: it has a previous neighbour and no
\* next one, and positions are waiting in the queue.
C19_Witness ==
    /\ InBody
    /\ N >= 3
    /\ current = N - 1
    /\ prev = Some(N - 2)
    /\ next = None
    /\ queue # <<>>

\* Extends by one edge the ends of the walks of relaxed edges from position
\* 0: the k-th entry of the result holds the ends of the walks of k-1 edges.
RECURSIVE WalkEndsUpTo(_, _)
WalkEndsUpTo(ends, len) ==
    IF Len(ends) >= len THEN ends
    ELSE WalkEndsUpTo(
             Append(ends, UNION {OutNeighbours(u) : u \in ends[Len(ends)]}),
             len)

\* Positions at which a walk of exactly k relaxed edges from position 0 ends.
WalkEnds(k) == WalkEndsUpTo(<<{0}>>, k + 1)[k + 1]

\* C20: every recorded distance is the length of a path from position 0
\* along relaxed edges, hence never smaller than the shortest distance in the
\* relaxed graph, and never larger than N - 1.
C20_RecordedIsPathLength ==
    pc # "start" =>
        LET ends == WalkEndsUpTo(<<{0}>>, N)
            shortest == BfsDistances
        IN  \A i \in Positions :
               distances[i] # None =>
                  /\ distances[i][1] <= N - 1
                  /\ i \in ends[distances[i][1] + 1]
                  /\ shortest[i][1] <= distances[i][1]

\* A recorded distance that is still larger than the shortest one.
C20_Witness ==
    /\ pc # "start"
    /\ \E i \in Positions :
          /\ distances[i] # None
          /\ i \in WalkEnds(distances[i][1])
          /\ distances[i][1] > BfsDistances[i][1]

====
